---- MODULE Spec2Model ----
(***************************************************************************)
(* Model of the Common Cartridge generator (src/src/cartridgeGenerator.js) *)
(* and of the caller in src/src/index.js.                                  *)
(*                                                                         *)
(* Strings on which the code searches or substitutes (identifiers, URLs)   *)
(* are sequences of one-character strings; other strings (titles, file     *)
(* names) are sequences of tokens.  An optional property of a JavaScript   *)
(* object is a record field that is present or absent.  An XML document    *)
(* is a record with one field per element or attribute the code fills in,  *)
(* and a sequence where the code concatenates fragments.                   *)
(***************************************************************************)
EXTENDS Integers, Sequences, FiniteSets, TLC

VARIABLES idCounter, call, descriptor

vars == <<idCounter, call, descriptor>>

(***************************************************************************)
(* Bounds of the explored inputs.                                          *)
(***************************************************************************)
MaxNodes == 3
OverlapNodes == 1
MaxSegs == 2

\* let idCounter = 100 / idCounter = 100
BaseId == 100

(***************************************************************************)
(* JavaScript strings.                                                     *)
(***************************************************************************)
DigitChar == <<"0", "1", "2", "3", "4", "5", "6", "7", "8", "9">>

\* `${n}`: the decimal digits of a non-negative integer
RECURSIVE NumberToString(_)
NumberToString(n) ==
  IF n < 10 THEN <<DigitChar[n + 1]>>
  ELSE NumberToString(n \div 10) \o <<DigitChar[(n % 10) + 1]>>

\* position of the first occurrence of pat in s, 0 when there is none
IndexOf(s, pat) ==
  LET hits == {i \in 1..(Len(s) - Len(pat) + 1) :
                 SubSeq(s, i, i + Len(pat) - 1) = pat}
  IN IF hits = {} THEN 0 ELSE CHOOSE i \in hits : \A j \in hits : i <= j

\* String.prototype.replace(pattern, replacement) with a string pattern:
\* the first occurrence only, wherever it is
StringReplace(s, pat, repl) ==
  LET i == IndexOf(s, pat)
  IN IF i = 0 THEN s
     ELSE SubSeq(s, 1, i - 1) \o repl \o SubSeq(s, i + Len(pat), Len(s))

\* launchUrl.replace(/\/[^\/]*$/, repl): the last "/" and what follows it
ReplaceLastSegment(s, repl) ==
  LET slashes == {i \in 1..Len(s) : s[i] = "/"}
  IN IF slashes = {} THEN s
     ELSE LET i == CHOOSE k \in slashes : \A j \in slashes : j <= k
          IN SubSeq(s, 1, i - 1) \o repl

LowerChar(c) ==
  CASE c = "I" -> "i"
    [] c = "R" -> "r"
    [] c = "M" -> "m"
    [] c = "O" -> "o"
    [] OTHER -> c

ToLowerCase(s) == [i \in 1..Len(s) |-> LowerChar(s[i])]

HttpPrefix == <<"h", "t", "t", "p", ":", "/", "/">>
HttpsPrefix == <<"h", "t", "t", "p", "s", ":", "/", "/">>

(***************************************************************************)
(* generateId, as a function of the counter it reads and increments.       *)
(***************************************************************************)
NextCounterStuck(n) == n

NextCounter(n) == n + 1

GenerateId(counter, prefix, suffix) ==
  [id |-> prefix \o NumberToString(counter) \o suffix,
   idCounter |-> NextCounter(counter)]

ItemPrefix == <<"I", "_">>
ResourceSuffix == <<"_", "R">>

Has(obj, field) == field \in DOMAIN obj

\* item.launchUrl, item.assessmentUrl, item.children as conditions
TruthyString(obj, field) == Has(obj, field) /\ obj[field] # <<>>

\* `i_${itemId.replace('I_', '')}`.toLowerCase()
FolderName(itemId) ==
  ToLowerCase(<<"i", "_">> \o StringReplace(itemId, ItemPrefix, <<>>))

\* item.assessmentTitle || `${item.title} ${type === 'exam' ? 'Exam' : 'Quiz'}`
AssessmentTitle(item) ==
  IF TruthyString(item, "assessmentTitle") THEN item.assessmentTitle
  ELSE item.title \o <<" ">> \o
       (IF Has(item, "assessmentMetadata")
           /\ Has(item.assessmentMetadata, "type")
           /\ item.assessmentMetadata.type = "exam"
        THEN <<"Exam">> ELSE <<"Quiz">>)

(***************************************************************************)
(* generateItems.  The walk state w holds what the closure shares: the     *)
(* module's idCounter and the resources array, with the itemsXml of the    *)
(* forEach in progress.                                                    *)
(***************************************************************************)
ContentHalf(item, w) ==
  LET g == GenerateId(w.idCounter, ItemPrefix, <<>>)
      contentResourceId == g.id \o ResourceSuffix
  IN [idCounter |-> g.idCounter,
      resources |-> Append(w.resources,
                      [id |-> contentResourceId,
                       folderName |-> FolderName(g.id),
                       launchUrl |-> item.launchUrl,
                       title |-> item.title,
                       isAssessment |-> FALSE]),
      itemsXml |-> Append(w.itemsXml,
                     [identifier |-> g.id,
                      identifierref |-> contentResourceId,
                      title |-> item.title,
                      items |-> <<>>])]

AssessmentHalfReusesId(item, w) ==
  LET g == GenerateId(w.idCounter - 1, ItemPrefix, <<>>)
      assessmentResourceId == g.id \o ResourceSuffix
  IN [idCounter |-> g.idCounter,
      resources |-> Append(w.resources,
                      [id |-> assessmentResourceId,
                       folderName |-> FolderName(g.id),
                       launchUrl |-> item.assessmentUrl,
                       title |-> AssessmentTitle(item),
                       isAssessment |-> TRUE,
                       metadata |-> IF Has(item, "assessmentMetadata")
                                    THEN item.assessmentMetadata ELSE <<>>]),
      itemsXml |-> Append(w.itemsXml,
                     [identifier |-> g.id,
                      identifierref |-> assessmentResourceId,
                      title |-> AssessmentTitle(item),
                      items |-> <<>>])]

AssessmentHalf(item, w) ==
  LET g == GenerateId(w.idCounter, ItemPrefix, <<>>)
      assessmentResourceId == g.id \o ResourceSuffix
  IN [idCounter |-> g.idCounter,
      resources |-> Append(w.resources,
                      [id |-> assessmentResourceId,
                       folderName |-> FolderName(g.id),
                       launchUrl |-> item.assessmentUrl,
                       title |-> AssessmentTitle(item),
                       isAssessment |-> TRUE,
                       metadata |-> IF Has(item, "assessmentMetadata")
                                    THEN item.assessmentMetadata ELSE <<>>]),
      itemsXml |-> Append(w.itemsXml,
                     [identifier |-> g.id,
                      identifierref |-> assessmentResourceId,
                      title |-> AssessmentTitle(item),
                      items |-> <<>>])]

LeafItem(item, w) ==
  LET c == ContentHalf(item, w)
  IN IF TruthyString(item, "assessmentUrl") THEN AssessmentHalf(item, c) ELSE c

RECURSIVE GenerateItems(_, _)
RECURSIVE ForEachItem(_, _, _)
RECURSIVE ContainerItem(_, _)

ContainerItemSkipsBare(item, w) ==
  IF ~Has(item, "children") THEN w
  ELSE LET g == GenerateId(w.idCounter, ItemPrefix, <<>>)
           sub == GenerateItems(item.children,
                                [idCounter |-> g.idCounter,
                                 resources |-> w.resources])
       IN [idCounter |-> sub.idCounter,
           resources |-> sub.resources,
           itemsXml |-> Append(w.itemsXml,
                          [identifier |-> g.id,
                           title |-> item.title,
                           items |-> sub.itemsXml])]

\* the else branch: one identifier, then the children if there are any
ContainerItem(item, w) ==
  LET g == GenerateId(w.idCounter, ItemPrefix, <<>>)
      sub == IF Has(item, "children")
             THEN GenerateItems(item.children,
                                [idCounter |-> g.idCounter,
                                 resources |-> w.resources])
             ELSE [idCounter |-> g.idCounter, resources |-> w.resources,
                   itemsXml |-> <<>>]
  IN [idCounter |-> sub.idCounter,
      resources |-> sub.resources,
      itemsXml |-> Append(w.itemsXml,
                     [identifier |-> g.id,
                      title |-> item.title,
                      items |-> sub.itemsXml])]

GenerateItem(item, w) ==
  IF TruthyString(item, "launchUrl") THEN LeafItem(item, w)
  ELSE ContainerItem(item, w)

ForEachItemReversed(items, i, w) ==
  IF i > Len(items) THEN w
  ELSE ForEachItem(items, i + 1, GenerateItem(items[Len(items) + 1 - i], w))

ForEachItem(items, i, w) ==
  IF i > Len(items) THEN w
  ELSE ForEachItem(items, i + 1, GenerateItem(items[i], w))

\* let itemsXml = ''; items.forEach(...); return itemsXml
GenerateItems(items, shared) ==
  ForEachItem(items, 1, [idCounter |-> shared.idCounter,
                         resources |-> shared.resources,
                         itemsXml |-> <<>>])

(***************************************************************************)
(* The descriptor renderers.  A descriptor is the record of the values the *)
(* template interpolates; properties is the extensions block in document   *)
(* order, each value as the text the template writes.                      *)
(***************************************************************************)
\* title || 'External Tool', title || 'Assessment'
TitleOr(title, default) == IF title # <<>> THEN title ELSE default

SecureLaunchUrl(launchUrl) == StringReplace(launchUrl, HttpPrefix, HttpsPrefix)

GenerateBasicLtiXml(launchUrl, title) ==
  [root |-> "cartridge_basiclti_link",
   title |-> TitleOr(title, <<"External Tool">>),
   description |-> "Basic LTI Launch",
   launch_url |-> launchUrl,
   secure_launch_url |-> SecureLaunchUrl(launchUrl),
   properties |-> <<>>]

\* if (metadata.timeLimit), if (metadata.attempts), if (metadata.passingScore)
TruthyNumber(obj, field) == Has(obj, field) /\ obj[field] # 0

\* if (metadata.proctored)
TruthyBoolean(obj, field) == Has(obj, field) /\ obj[field] = TRUE

Property(name, value) == [name |-> name, value |-> value]

OptionalNumber(metadata, field, name) ==
  IF TruthyNumber(metadata, field)
  THEN <<Property(name, NumberToString(metadata[field]))>>
  ELSE <<>>

DefaultPoints == 10

GenerateLtiAdvantageXml(launchUrl, title, metadata) ==
  [root |-> "cartridge_basiclti_link",
   title |-> TitleOr(title, <<"Assessment">>),
   description |-> "Assessment Launch via LTI Advantage",
   launch_url |-> launchUrl,
   secure_launch_url |-> SecureLaunchUrl(launchUrl),
   properties |->
     <<Property("tool_id", <<"lti_advantage_tool">>),
       Property("privacy_level", <<"public">>),
       Property("lti_1_3_enabled", <<"true">>),
       Property("public_jwk_url",
                ReplaceLastSegment(launchUrl, <<"/", "j", "w", "k", "s">>)),
       Property("assignment_enabled", <<"true">>),
       Property("assignment_points_possible",
                NumberToString(IF TruthyNumber(metadata, "points")
                               THEN metadata.points ELSE DefaultPoints))>>
     \o OptionalNumber(metadata, "timeLimit", "time_limit")
     \o OptionalNumber(metadata, "attempts", "allowed_attempts")
     \o (IF TruthyBoolean(metadata, "proctored")
         THEN <<Property("proctoring_enabled", <<"true">>)>> ELSE <<>>)
     \o OptionalNumber(metadata, "passingScore", "passing_score")
     \o <<Property("oidc_initiation_url",
                   ReplaceLastSegment(launchUrl, <<"/", "i", "n", "i", "t">>))>>]

(***************************************************************************)
(* The file system as the call sees it: the directories that exist and the *)
(* files with their contents.  A path is the sequence of its components.   *)
(* Every fs call of a generateManifest call is numbered; the failAt-th one *)
(* throws (0: none does), and once one has thrown the rest of the          *)
(* synchronous code is skipped.                                            *)
(***************************************************************************)
NoPath == <<>>

Dirname(path) == SubSeq(path, 1, Len(path) - 1)

Join(path, name) == Append(path, name)

EmptyDisk == [dirs |-> {<<>>}, files |-> {}]

NewIo == [disk |-> EmptyDisk, log |-> <<>>, n |-> 0, failed |-> FALSE]

Event(op, path, ok) == [op |-> op, path |-> path, ok |-> ok]

Fails(io, failAt) == io.n + 1 = failAt

\* fs.mkdirSync(path, { recursive: true })
MkdirSync(io, failAt, path) ==
  IF io.failed THEN io
  ELSE IF Fails(io, failAt)
  THEN [io EXCEPT !.n = @ + 1, !.failed = TRUE,
                  !.log = Append(@, Event("mkdir", path, FALSE))]
  ELSE [io EXCEPT !.n = @ + 1,
                  !.disk.dirs = @ \cup {SubSeq(path, 1, k) : k \in 0..Len(path)},
                  !.log = Append(@, Event("mkdir", path, TRUE))]

\* if (!fs.existsSync(dir)) fs.mkdirSync(dir, { recursive: true })
EnsureDirectory(io, failAt, path) ==
  IF io.failed \/ path \in io.disk.dirs THEN io
  ELSE MkdirSync(io, failAt, path)

\* fs.writeFileSync(path, content): overwrites; throws when the directory
\* is missing
WriteFileSync(io, failAt, path, content) ==
  IF io.failed THEN io
  ELSE IF Fails(io, failAt) \/ Dirname(path) \notin io.disk.dirs
  THEN [io EXCEPT !.n = @ + 1, !.failed = TRUE,
                  !.log = Append(@, Event("write", path, FALSE))]
  ELSE [io EXCEPT !.n = @ + 1,
                  !.disk.files = {f \in @ : f.path # path}
                                 \cup {[path |-> path, content |-> content]},
                  !.log = Append(@, Event("write", path, TRUE))]

BasicLtiFile == <<"basiclti.xml">>
LtiAdvantageFile == <<"lti_advantage.xml">>

DescriptorFile(resource) ==
  IF ~resource.isAssessment THEN BasicLtiFile ELSE LtiAdvantageFile

DescriptorXml(resource) ==
  IF ~resource.isAssessment
  THEN GenerateBasicLtiXml(resource.launchUrl, resource.title)
  ELSE GenerateLtiAdvantageXml(resource.launchUrl, resource.title,
                               resource.metadata)

ResourceStepDropsAssessment(resource, outputPath, failAt, acc) ==
  IF acc.io.failed \/ resource.isAssessment THEN acc
  ELSE
    LET entry == [identifier |-> resource.id,
                  type |-> "imsbasiclti_xmlv1p0",
                  href |-> resource.folderName \o <<"/">> \o BasicLtiFile]
        folderPath == Join(Dirname(outputPath), resource.folderName)
        written == WriteFileSync(EnsureDirectory(acc.io, failAt, folderPath),
                                 failAt, Join(folderPath, BasicLtiFile),
                                 GenerateBasicLtiXml(resource.launchUrl,
                                                     resource.title))
    IN [resourcesXml |-> Append(acc.resourcesXml, entry),
        io |-> IF outputPath # NoPath THEN written ELSE acc.io]

\* one round of resources.forEach in generateResourcesXml
ResourceStep(resource, outputPath, failAt, acc) ==
  IF acc.io.failed THEN acc
  ELSE
    LET entry == [identifier |-> resource.id,
                  type |-> "imsbasiclti_xmlv1p0",
                  href |-> resource.folderName \o <<"/">>
                           \o DescriptorFile(resource)]
        folderPath == Join(Dirname(outputPath), resource.folderName)
        made == EnsureDirectory(acc.io, failAt, folderPath)
        written == WriteFileSync(made, failAt,
                                 Join(folderPath, DescriptorFile(resource)),
                                 DescriptorXml(resource))
    IN [resourcesXml |-> Append(acc.resourcesXml, entry),
        io |-> IF outputPath # NoPath THEN written ELSE acc.io]

RECURSIVE ForEachResource(_, _, _, _, _)
ForEachResource(resources, i, outputPath, failAt, acc) ==
  IF i > Len(resources) THEN acc
  ELSE ForEachResource(resources, i + 1, outputPath, failAt,
                       ResourceStep(resources[i], outputPath, failAt, acc))

GenerateResourcesXml(resources, outputPath, failAt, io) ==
  ForEachResource(resources, 1, outputPath, failAt,
                  [resourcesXml |-> <<>>, io |-> io])

RootIdentifier == <<"r", "o", "o", "t">>

\* the manifest template
ManifestXml(courseData, manifestId, organizationId, itemsXml, resourcesXml) ==
  [identifier |-> manifestId,
   title |-> courseData.title,
   description |-> IF TruthyString(courseData, "description")
                   THEN courseData.description ELSE <<>>,
   category |-> IF TruthyString(courseData, "category")
                THEN courseData.category ELSE <<"Hybrid Hosting">>,
   organization |-> [identifier |-> organizationId,
                     structure |-> "rooted-hierarchy",
                     item |-> [identifier |-> RootIdentifier,
                               items |-> itemsXml]],
   resources |-> resourcesXml]

\* if (outputPath) { ensure dirname(outputPath); writeFileSync(outputPath, xml) }
WriteManifest(io, failAt, outputPath, xml) ==
  IF outputPath = NoPath THEN io
  ELSE WriteFileSync(EnsureDirectory(io, failAt, Dirname(outputPath)),
                     failAt, outputPath, xml)

ArchiveFileOf(outputFilename) ==
  Join(Dirname(outputFilename),
       outputFilename[Len(outputFilename)] \o <<".imscc">>)

\* the executor of createCartridgePackage, up to archive.finalize()
CreateCartridgePackage(io, failAt, sourcePath, outputFilename) ==
  LET ensured == EnsureDirectory(io, failAt, Dirname(outputFilename))
  IN IF ensured.failed THEN ensured
     ELSE [ensured EXCEPT
             !.log = @ \o <<Event("createWriteStream",
                                  ArchiveFileOf(outputFilename), TRUE),
                            Event("archive.directory", sourcePath, TRUE),
                            Event("archive.finalize", sourcePath, TRUE)>>]

(***************************************************************************)
(* generateManifest up to its return statement.  It runs to completion:    *)
(* nothing in it yields to the event loop.                                 *)
(***************************************************************************)
ResetCounterKept(n) == n

\* idCounter = 100
ResetCounter(n) == BaseId

\* path.join(path.dirname(cartridgeDir), path.basename(cartridgeDir))
ZipOutputBase(cartridgeDir) ==
  Join(Dirname(cartridgeDir), cartridgeDir[Len(cartridgeDir)])

\* createCartridgePackage(cartridgeDir, zipOutputBase), after the writes
Package(written, failAt, outputPath) ==
  CreateCartridgePackage(written, failAt, Dirname(outputPath),
                         ZipOutputBase(Dirname(outputPath)))

SyncPart(counter, courseData, outputPath, createPackage, failAt) ==
  LET m == GenerateId(ResetCounter(counter), <<"M", "_">>, <<>>)
      o == GenerateId(m.idCounter, <<"O", "_">>, <<>>)
      walk == GenerateItems(courseData.modules,
                            [idCounter |-> o.idCounter, resources |-> <<>>])
      res == GenerateResourcesXml(walk.resources, outputPath, failAt, NewIo)
      xml == ManifestXml(courseData, m.id, o.id, walk.itemsXml,
                         res.resourcesXml)
      written == WriteManifest(res.io, failAt, outputPath, xml)
      packaging == createPackage /\ outputPath # NoPath
      packed == IF packaging /\ ~written.failed
                THEN Package(written, failAt, outputPath)
                ELSE written
      status == IF written.failed THEN "thrown"
                ELSE IF ~packaging THEN "resolved"
                ELSE IF packed.failed THEN "rejected"
                ELSE "pending"
  IN [idCounter |-> walk.idCounter,
      io |-> packed,
      call |-> [status |-> status,
                courseData |-> courseData,
                outputPath |-> outputPath,
                createPackage |-> createPackage,
                resources |-> walk.resources,
                xml |-> IF res.io.failed THEN <<>> ELSE <<xml>>,
                value |-> IF status = "resolved" THEN <<xml>> ELSE <<>>,
                disk |-> packed.disk,
                log |-> packed.log,
                failed |-> packed.failed,
                closed |-> FALSE,
                warned |-> FALSE]]

(***************************************************************************)
(* Course trees.  Titles name the position of a node, so that an output    *)
(* item can be traced to the node it was made from.                        *)
(***************************************************************************)
Calls == {"a", "b"}

CourseTitle == <<"C">>

LaunchUrlOf(t) == HttpsPrefix \o <<"x", "/">> \o t
AssessmentUrlOf(t) == HttpPrefix \o <<"q", "/">> \o t

\* the four shapes of a node without descendants, before titles are given
ContentLeaf == [launchUrl |-> "u"]
AssessedLeaf == [launchUrl |-> "u", assessmentUrl |-> "q"]
BareNode == [bare |-> TRUE]
Container(kids) == [children |-> kids]

\* the sequences of nodes (with their descendants) that have n nodes in all
RECURSIVE Forests(_)
Forests(n) ==
  IF n = 0 THEN {<<>>}
  ELSE UNION {
         {<<node>> \o rest :
            node \in (IF k = 1
                      THEN {ContentLeaf, AssessedLeaf, BareNode, Container(<<>>)}
                      ELSE {Container(kids) : kids \in Forests(k - 1)}),
            rest \in Forests(n - k)} : k \in 1..n}

\* the node of shape `shape` with title t, and its children titled t.1, t.2, ...
RECURSIVE Titled(_, _)
Titled(shape, t) ==
  IF Has(shape, "children")
  THEN [title |-> t,
        children |-> [j \in 1..Len(shape.children) |->
                        Titled(shape.children[j],
                               t \o <<".">> \o NumberToString(j))]]
  ELSE IF Has(shape, "bare") THEN [title |-> t]
  ELSE IF Has(shape, "assessmentUrl")
  THEN [title |-> t, launchUrl |-> LaunchUrlOf(t),
        assessmentUrl |-> AssessmentUrlOf(t)]
  ELSE [title |-> t, launchUrl |-> LaunchUrlOf(t)]

Trees(maxNodes) ==
  {[title |-> CourseTitle,
    modules |-> [i \in 1..Len(f) |-> Titled(f[i], <<"M">> \o NumberToString(i))]] :
     f \in UNION {Forests(n) : n \in 0..maxNodes}}

CourseTrees == Trees(MaxNodes)
OverlapTrees == Trees(OverlapNodes)

OutputPathOf(c) == <<<<"out_" \o c>>, <<"imsmanifest.xml">>>>

(***************************************************************************)
(* State: the module's idCounter and, for each call the caller has in      *)
(* flight, the promise it got back with what the call left behind.  Each   *)
(* call is given an output directory of its own, absent when it starts.    *)
(***************************************************************************)
IdleCall ==
  [status |-> "idle",
   courseData |-> [title |-> <<>>, modules |-> <<>>],
   outputPath |-> NoPath,
   createPackage |-> FALSE,
   resources |-> <<>>,
   xml |-> <<>>,
   value |-> <<>>,
   disk |-> EmptyDisk,
   log |-> <<>>,
   failed |-> FALSE,
   closed |-> FALSE,
   warned |-> FALSE]

NoDescriptor == [kind |-> "none", launchUrl |-> <<>>, metadata |-> <<>>,
                 xml |-> <<>>]

Init ==
  /\ idCounter = BaseId
  /\ call = [c \in Calls |-> IdleCall]
  /\ descriptor = NoDescriptor

\* one call of generateManifest(courseData, outputPath, createPackage)
GenerateManifest(c, courseData, outputPath, createPackage, failAt) ==
  /\ call[c].status = "idle"
  /\ LET r == SyncPart(idCounter, courseData, outputPath, createPackage, failAt)
     IN /\ idCounter' = r.idCounter
        /\ call' = [call EXCEPT ![c] = r.call]
  /\ UNCHANGED descriptor

\* the number of fs calls a call makes when none of them fails
FsCalls(courseData, outputPath, createPackage) ==
  SyncPart(BaseId, courseData, outputPath, createPackage, 0).io.n

\* archive.on('warning') with err.code === 'ENOENT': console.warn, no more
ArchiveWarning(c) ==
  /\ call[c].status = "pending"
  /\ ~call[c].closed
  /\ ~call[c].warned
  /\ call' = [call EXCEPT ![c].warned = TRUE]
  /\ UNCHANGED <<idCounter, descriptor>>

\* archive.on('error'), or a warning that is not ENOENT: reject(err)
ArchiveError(c) ==
  /\ call[c].status = "pending"
  /\ ~call[c].closed
  /\ call' = [call EXCEPT ![c].status = "rejected",
                          ![c].failed = TRUE,
                          ![c].log = Append(@, Event("archive.error",
                                            Dirname(call[c].outputPath), FALSE))]
  /\ UNCHANGED <<idCounter, descriptor>>

\* output.on('close'): the archive is on disk, resolve()
ArchiveClose(c) ==
  /\ call[c].status = "pending"
  /\ ~call[c].closed
  /\ LET sourcePath == Dirname(call[c].outputPath)
         archiveFile == ArchiveFileOf(ZipOutputBase(sourcePath))
         entries == {f.path : f \in {g \in call[c].disk.files :
                       SubSeq(g.path, 1, Len(sourcePath)) = sourcePath}}
     IN call' = [call EXCEPT
                   ![c].closed = TRUE,
                   ![c].disk.files = @ \cup {[path |-> archiveFile,
                                              content |-> entries]},
                   ![c].log = Append(@, Event("close", archiveFile, TRUE))]
  /\ UNCHANGED <<idCounter, descriptor>>

ThenXmlEarly(c) ==
  /\ call[c].status = "pending"
  /\ call' = [call EXCEPT ![c].status = "resolved", ![c].value = call[c].xml]
  /\ UNCHANGED <<idCounter, descriptor>>

\* .then(() => xml)
ThenXml(c) ==
  /\ call[c].status = "pending"
  /\ call[c].closed
  /\ call' = [call EXCEPT ![c].status = "resolved", ![c].value = call[c].xml]
  /\ UNCHANGED <<idCounter, descriptor>>

\* the caller's .then handler: it is done with this call
CallerThen(c) ==
  /\ call[c].status = "resolved"
  /\ call' = [call EXCEPT ![c] = IdleCall]
  /\ UNCHANGED <<idCounter, descriptor>>

\* the caller's .catch handler
CallerCatch(c) ==
  /\ call[c].status = "rejected"
  /\ call' = [call EXCEPT ![c] = IdleCall]
  /\ UNCHANGED <<idCounter, descriptor>>

Next ==
  \/ \E courseData \in CourseTrees, outputPath \in {NoPath, OutputPathOf("a")},
        createPackage \in BOOLEAN :
       \E failAt \in 0..FsCalls(courseData, outputPath, createPackage) :
         GenerateManifest("a", courseData, outputPath, createPackage, failAt)
  \/ ArchiveWarning("a")
  \/ ArchiveError("a")
  \/ ArchiveClose("a")
  \/ ThenXml("a")

Spec == Init /\ [][Next]_vars

\* calls that overlap: a call may start while the other's archive is pending
NextOverlap ==
  \/ \E c \in Calls, courseData \in OverlapTrees :
       GenerateManifest(c, courseData, OutputPathOf(c), TRUE, 0)
  \/ \E c \in Calls : ArchiveClose(c)
  \/ \E c \in Calls : ArchiveError(c)
  \/ \E c \in Calls : ThenXml(c)
  \/ \E c \in Calls : CallerThen(c)
  \/ \E c \in Calls : CallerCatch(c)

SpecOverlap == Init /\ [][NextOverlap]_vars

(***************************************************************************)
(* The renderers on their own: generateBasicLtiXml and                     *)
(* generateLtiAdvantageXml applied to launch URLs and metadata records.    *)
(***************************************************************************)
UrlSegments == {HttpPrefix, HttpsPrefix, <<"x">>, <<"/", "a">>}

RECURSIVE UrlsOf(_)
UrlsOf(n) ==
  IF n = 0 THEN {<<>>}
  ELSE {seg \o rest : seg \in UrlSegments, rest \in UrlsOf(n - 1)}

Urls == UNION {UrlsOf(n) : n \in 1..MaxSegs}

\* a numeric field is absent, or present with 0 or with a positive value
NumberChoices == {<<>>, <<0>>, <<15>>}
BooleanChoices == {<<>>, <<FALSE>>, <<TRUE>>}

EmptyObject == <<>>

OptionalField(name, choice) ==
  IF choice = <<>> THEN EmptyObject ELSE name :> choice[1]

Metadatas ==
  {OptionalField("points", p) @@ OptionalField("timeLimit", t)
     @@ OptionalField("attempts", a) @@ OptionalField("proctored", b)
     @@ OptionalField("passingScore", s) :
     p \in NumberChoices, t \in NumberChoices, a \in NumberChoices,
     b \in BooleanChoices, s \in NumberChoices}

RenderBasic(launchUrl) ==
  /\ descriptor.kind = "none"
  /\ descriptor' = [kind |-> "basic", launchUrl |-> launchUrl,
                    metadata |-> EmptyObject,
                    xml |-> <<GenerateBasicLtiXml(launchUrl, <<"T">>)>>]
  /\ UNCHANGED <<idCounter, call>>

RenderAdvantage(launchUrl, metadata) ==
  /\ descriptor.kind = "none"
  /\ descriptor' = [kind |-> "advantage", launchUrl |-> launchUrl,
                    metadata |-> metadata,
                    xml |-> <<GenerateLtiAdvantageXml(launchUrl, <<"T">>,
                                                      metadata)>>]
  /\ UNCHANGED <<idCounter, call>>

NextRender ==
  \/ \E launchUrl \in Urls : RenderBasic(launchUrl)
  \/ \E launchUrl \in Urls, metadata \in Metadatas :
       RenderAdvantage(launchUrl, metadata)

SpecRender == Init /\ [][NextRender]_vars

(***************************************************************************)
(* What the properties below read from a call and from its input.          *)
(***************************************************************************)
Started(c) == call[c].status # "idle"

\* the manifest text was assembled
Built(c) == call[c].xml # <<>>

Doc(c) == call[c].xml[1]

\* the items of a fragment in document order
RECURSIVE PreOrder(_)
PreOrder(items) ==
  IF items = <<>> THEN <<>>
  ELSE <<items[1]>> \o PreOrder(items[1].items) \o PreOrder(Tail(items))

OrgItems(c) == PreOrder(Doc(c).organization.item.items)

Referencing(items) == SelectSeq(items, LAMBDA it : Has(it, "identifierref"))

IsLeaf(node) == Has(node, "launchUrl")
IsAssessed(node) == IsLeaf(node) /\ Has(node, "assessmentUrl")
IsBare(node) == ~Has(node, "launchUrl") /\ ~Has(node, "children")

\* the nodes of a tree, each before its descendants
RECURSIVE NodesOf(_)
NodesOf(nodes) ==
  IF nodes = <<>> THEN <<>>
  ELSE <<nodes[1]>>
       \o (IF Has(nodes[1], "children") THEN NodesOf(nodes[1].children)
           ELSE <<>>)
       \o NodesOf(Tail(nodes))

InputNodes(c) == NodesOf(call[c].courseData.modules)

Range(seq) == {seq[i] : i \in 1..Len(seq)}

Packaging(c) == call[c].createPackage /\ call[c].outputPath # NoPath

DescriptorPath(c, resource) ==
  Join(Join(Dirname(call[c].outputPath), resource.folderName),
       IF resource.isAssessment THEN LtiAdvantageFile ELSE BasicLtiFile)

FilePaths(c) == {f.path : f \in call[c].disk.files}

(***************************************************************************)
(* C1  Reference closure: in every assembled manifest, each identifierref  *)
(* of an organization item is the identifier of exactly one resource       *)
(* entry, each resource identifier is referenced by exactly one item, and  *)
(* the item made from a node without launchUrl carries no identifierref.   *)
(***************************************************************************)
C1_ReferenceClosure ==
  \A c \in Calls : Built(c) =>
    LET items == OrgItems(c)
        res == Doc(c).resources
    IN /\ \A i \in 1..Len(items) : Has(items[i], "identifierref") =>
            Cardinality({k \in 1..Len(res) :
                           res[k].identifier = items[i].identifierref}) = 1
       /\ \A k \in 1..Len(res) :
            Cardinality({i \in 1..Len(items) :
                           /\ Has(items[i], "identifierref")
                           /\ items[i].identifierref = res[k].identifier}) = 1
       /\ \A n \in Range(InputNodes(c)) : ~IsLeaf(n) =>
            \A i \in 1..Len(items) :
              items[i].title = n.title => ~Has(items[i], "identifierref")

C1_Witness ==
  \E c \in Calls :
    /\ call[c].status = "resolved"
    /\ Built(c)
    /\ Len(Doc(c).resources) >= 2
    /\ \E it \in Range(OrgItems(c)) : it.items # <<>>

(***************************************************************************)
(* C2  Identifier uniqueness: the manifest id, the organization id, every  *)
(* item id and every resource id of one assembled manifest are pairwise    *)
(* distinct.                                                               *)
(***************************************************************************)
AllIdentifiers(c) ==
  <<Doc(c).identifier, Doc(c).organization.identifier>>
  \o [i \in 1..Len(OrgItems(c)) |-> OrgItems(c)[i].identifier]
  \o [k \in 1..Len(Doc(c).resources) |-> Doc(c).resources[k].identifier]

C2_IdentifierUniqueness ==
  \A c \in Calls : Built(c) =>
    LET ids == AllIdentifiers(c)
    IN \A i, j \in 1..Len(ids) : i # j => ids[i] # ids[j]

C2_Witness ==
  \E c \in Calls :
    /\ Built(c)
    /\ Len(OrgItems(c)) >= 3
    /\ \E n \in Range(InputNodes(c)) : IsAssessed(n)

(***************************************************************************)
(* C3  Order preservation: at every level the output items are the input   *)
(* siblings in input order, a leaf with an assessmentUrl being followed at *)
(* once by its assessment item; the resource entries are in the order of   *)
(* the items that reference them, an assessment's record right after its   *)
(* content record.                                                         *)
(***************************************************************************)
\* what the siblings `nodes` must give, in order
RECURSIVE ExpectedSiblings(_)
ExpectedSiblings(nodes) ==
  IF nodes = <<>> THEN <<>>
  ELSE (IF IsLeaf(nodes[1])
        THEN <<[half |-> "content", node |-> nodes[1]]>>
             \o (IF IsAssessed(nodes[1])
                 THEN <<[half |-> "assessment", node |-> nodes[1]]>>
                 ELSE <<>>)
        ELSE <<[half |-> "container", node |-> nodes[1]]>>)
       \o ExpectedSiblings(Tail(nodes))

ResourceIndex(resources, id) ==
  {k \in 1..Len(resources) : resources[k].id = id}

\* the item is the one expected: its title or resource names the node
ItemMatches(item, e, resources) ==
  CASE e.half = "container" ->
         /\ item.title = e.node.title
         /\ ~Has(item, "identifierref")
    [] e.half = "content" ->
         /\ item.title = e.node.title
         /\ Has(item, "identifierref")
         /\ \E k \in ResourceIndex(resources, item.identifierref) :
              /\ ~resources[k].isAssessment
              /\ resources[k].launchUrl = e.node.launchUrl
    [] e.half = "assessment" ->
         /\ Has(item, "identifierref")
         /\ \E k \in ResourceIndex(resources, item.identifierref) :
              /\ resources[k].isAssessment
              /\ resources[k].launchUrl = e.node.assessmentUrl
              /\ k > 1
              /\ ~resources[k - 1].isAssessment
              /\ resources[k - 1].launchUrl = e.node.launchUrl

RECURSIVE SiblingsInOrder(_, _, _)
SiblingsInOrder(nodes, items, resources) ==
  LET expected == ExpectedSiblings(nodes)
  IN /\ Len(items) = Len(expected)
     /\ \A k \in 1..Len(expected) :
          /\ ItemMatches(items[k], expected[k], resources)
          /\ IF expected[k].half = "container"
                /\ Has(expected[k].node, "children")
             THEN SiblingsInOrder(expected[k].node.children, items[k].items,
                                  resources)
             ELSE items[k].items = <<>>

C3_OrderPreservation ==
  \A c \in Calls : Built(c) =>
    /\ SiblingsInOrder(call[c].courseData.modules,
                       Doc(c).organization.item.items, call[c].resources)
    /\ LET refs == Referencing(OrgItems(c))
           res == Doc(c).resources
       IN /\ Len(res) = Len(refs)
          /\ Len(res) = Len(call[c].resources)
          /\ \A k \in 1..Len(res) :
               /\ res[k].identifier = refs[k].identifierref
               /\ res[k].identifier = call[c].resources[k].id

C3_Witness ==
  \E c \in Calls :
    /\ Built(c)
    /\ Len(call[c].courseData.modules) >= 2
    /\ IsAssessed(call[c].courseData.modules[1])
    /\ \E n \in Range(InputNodes(c)) :
         Has(n, "children") /\ Len(n.children) >= 1

(***************************************************************************)
(* C4  Write-then-archive ordering: in a call with an output path and      *)
(* packaging, every step of the archive comes after the successful write   *)
(* of each of the N descriptors and of the manifest and is followed by no  *)
(* write; the promise is resolved only once the archive output has closed, *)
(* with the manifest text, the archive then holding the manifest and the   *)
(* N descriptors.                                                          *)
(***************************************************************************)
ArchiveOps == {"createWriteStream", "archive.directory", "archive.finalize"}

ArchiveSteps(c) == {i \in 1..Len(call[c].log) : call[c].log[i].op \in ArchiveOps}

WrittenBefore(c, path, i) ==
  \E j \in 1..(i - 1) : call[c].log[j] = Event("write", path, TRUE)

C4_WriteThenArchive ==
  \A c \in Calls : (Started(c) /\ Packaging(c)) =>
    /\ \A i \in ArchiveSteps(c) :
         /\ \A r \in Range(call[c].resources) :
              WrittenBefore(c, DescriptorPath(c, r), i)
         /\ WrittenBefore(c, call[c].outputPath, i)
         /\ \A j \in (i + 1)..Len(call[c].log) :
              call[c].log[j].op \notin {"write", "mkdir"}
    /\ call[c].status = "pending" => ArchiveSteps(c) # {}
    /\ call[c].status = "resolved" =>
         /\ call[c].closed
         /\ Built(c)
         /\ call[c].value = call[c].xml
         /\ \E i \in 1..Len(call[c].log) :
              /\ call[c].log[i].op = "close"
              /\ \A j \in ArchiveSteps(c) : j < i
         /\ \E f \in call[c].disk.files :
              /\ f.path = ArchiveFileOf(Dirname(call[c].outputPath))
              /\ call[c].outputPath \in f.content
              /\ \A r \in Range(call[c].resources) :
                   DescriptorPath(c, r) \in f.content

C4_Witness ==
  \E c \in Calls :
    /\ Packaging(c)
    /\ call[c].status = "resolved"
    /\ call[c].closed
    /\ Len(call[c].resources) >= 2

(***************************************************************************)
(* C6  As claimed: a call on a tree with a node that has neither children  *)
(* nor launchUrl fails, and no manifest is assembled or written.           *)
(***************************************************************************)
HasBareNode(c) == \E n \in Range(InputNodes(c)) : IsBare(n)

C6_StructuralErrorClaimed ==
  \A c \in Calls : (Started(c) /\ HasBareNode(c)) =>
    /\ call[c].status \in {"thrown", "rejected"}
    /\ ~Built(c)
    /\ call[c].outputPath \notin FilePaths(c)

(***************************************************************************)
(* C6  As amended: a node with neither children nor launchUrl raises no    *)
(* error: it is compiled as a container without children (one item with    *)
(* an identifier of its own, no identifierref, nothing nested, no          *)
(* resource), and the call fails only if an fs call or the archive does;   *)
(* otherwise the manifest is assembled, and written when a path is given.  *)
(***************************************************************************)
C6_BareNodeIsEmptyContainer ==
  \A c \in Calls : (Started(c) /\ HasBareNode(c)) =>
    /\ call[c].status \in {"thrown", "rejected"} => call[c].failed
    /\ ~call[c].failed =>
         /\ Built(c)
         /\ call[c].outputPath # NoPath => call[c].outputPath \in FilePaths(c)
    /\ Built(c) =>
         \A n \in Range(InputNodes(c)) : IsBare(n) =>
           /\ Cardinality({i \in 1..Len(OrgItems(c)) :
                             /\ OrgItems(c)[i].title = n.title
                             /\ ~Has(OrgItems(c)[i], "identifierref")
                             /\ OrgItems(c)[i].items = <<>>}) = 1
           /\ \A r \in Range(call[c].resources) : r.title # n.title

C6_Witness ==
  \E c \in Calls :
    /\ HasBareNode(c)
    /\ call[c].status = "resolved"
    /\ call[c].outputPath # NoPath
    /\ call[c].value # <<>>
    /\ Len(InputNodes(c)) >= 2

(***************************************************************************)
(* C7  As claimed: when a directory creation or a file write of a call     *)
(* fails, the caller gets the failure as a rejection of the returned       *)
(* promise, the failed fs call is the last step of the call, and the       *)
(* descriptors written before it are still on disk.                        *)
(***************************************************************************)
FsFailure(c) ==
  \E i \in 1..Len(call[c].log) :
    call[c].log[i].op \in {"mkdir", "write"} /\ ~call[c].log[i].ok

C7_IoErrorRejects ==
  \A c \in Calls : (Started(c) /\ FsFailure(c)) =>
    /\ call[c].status = "rejected"
    /\ ~call[c].log[Len(call[c].log)].ok
    /\ \A i \in 1..Len(call[c].log) :
         (call[c].log[i].op = "write" /\ call[c].log[i].ok) =>
           call[c].log[i].path \in FilePaths(c)

(***************************************************************************)
(* C5  Reproducibility: two calls on the same course tree, whatever calls  *)
(* were made before and between them, assemble the same manifest, with     *)
(* the same identifiers, and resolve to the same text.                     *)
(***************************************************************************)
C5_Reproducible ==
  \A c1, c2 \in Calls :
    (Built(c1) /\ Built(c2) /\ call[c1].courseData = call[c2].courseData) =>
      /\ Doc(c1) = Doc(c2)
      /\ AllIdentifiers(c1) = AllIdentifiers(c2)
      /\ (call[c1].status = "resolved" /\ call[c2].status = "resolved") =>
           call[c1].value = call[c2].value

C5_Witness ==
  \E c1, c2 \in Calls :
    /\ c1 # c2
    /\ call[c1].status = "resolved"
    /\ call[c2].status = "resolved"
    /\ call[c1].courseData = call[c2].courseData
    /\ Len(OrgItems(c1)) >= 1

(***************************************************************************)
(* C10  Overlapping calls: every call, also one started while another      *)
(* call's archive is pending, draws BaseId, BaseId + 1, ... in a row (the  *)
(* manifest, the organization, then the items in document order) and       *)
(* resolves to the text the same call gives from the initial state.        *)
(***************************************************************************)
C10_ConsecutiveUnderOverlap ==
  \A c \in Calls : Built(c) =>
    /\ Doc(c).identifier = <<"M", "_">> \o NumberToString(BaseId)
    /\ Doc(c).organization.identifier
         = <<"O", "_">> \o NumberToString(BaseId + 1)
    /\ \A k \in 1..Len(OrgItems(c)) :
         OrgItems(c)[k].identifier
           = <<"I", "_">> \o NumberToString(BaseId + 1 + k)
    /\ call[c].status = "resolved" =>
         call[c].value
           = SyncPart(BaseId, call[c].courseData, call[c].outputPath,
                      call[c].createPackage, 0).call.xml

C10_Witness ==
  \E c, d \in Calls :
    /\ c # d
    /\ call[d].status = "pending"
    /\ ~call[d].closed
    /\ Len(OrgItems(d)) >= 1
    /\ call[c].status = "resolved"
    /\ Len(OrgItems(c)) >= 1
    /\ call[c].courseData # call[d].courseData
    /\ idCounter = BaseId + 2 + Len(OrgItems(c))

(***************************************************************************)
(* C8  As claimed: secure_launch_url is the launch URL with a leading      *)
(* http:// replaced by https://, and the launch URL itself when it does    *)
(* not start with http://.                                                 *)
(***************************************************************************)
StartsWith(s, prefix) ==
  Len(s) >= Len(prefix) /\ SubSeq(s, 1, Len(prefix)) = prefix

C8_SecureUrlPrefixOnly ==
  descriptor.kind # "none" =>
    descriptor.xml[1].secure_launch_url
      = IF StartsWith(descriptor.launchUrl, HttpPrefix)
        THEN HttpsPrefix \o SubSeq(descriptor.launchUrl, Len(HttpPrefix) + 1,
                                   Len(descriptor.launchUrl))
        ELSE descriptor.launchUrl

(***************************************************************************)
(* C9  As claimed: the advantage descriptor has time_limit exactly when    *)
(* timeLimit is set, allowed_attempts exactly when attempts is set,        *)
(* proctoring_enabled exactly when proctored is truthy and passing_score   *)
(* exactly when passingScore is set, whatever the value; in that order,    *)
(* after assignment_points_possible and before oidc_initiation_url.        *)
(***************************************************************************)
PropertyNames(xml) == [i \in 1..Len(xml.properties) |-> xml.properties[i].name]

C9_OptionalWhenSet ==
  descriptor.kind = "advantage" =>
    PropertyNames(descriptor.xml[1])
      = <<"tool_id", "privacy_level", "lti_1_3_enabled", "public_jwk_url",
          "assignment_enabled", "assignment_points_possible">>
        \o (IF Has(descriptor.metadata, "timeLimit")
            THEN <<"time_limit">> ELSE <<>>)
        \o (IF Has(descriptor.metadata, "attempts")
            THEN <<"allowed_attempts">> ELSE <<>>)
        \o (IF Has(descriptor.metadata, "proctored")
               /\ descriptor.metadata.proctored
            THEN <<"proctoring_enabled">> ELSE <<>>)
        \o (IF Has(descriptor.metadata, "passingScore")
            THEN <<"passing_score">> ELSE <<>>)
        \o <<"oidc_initiation_url">>

====
